---- MODULE Spec2Model ----
(***************************************************************************)
(* picvoter-backend (src/src/main.rs): content-addressed image ingestion   *)
(* and confidence-ranked voting / selection over one SQLite table.         *)
(*                                                                         *)
(* f32 values are modelled in fixed point: the integer v stands for the    *)
(* float v / Scale.  Every float operation of the source is one FMul,      *)
(* FDiv, FSqrt or FAbs here, applied in the source's order.                *)
(*                                                                         *)
(* Request handlers (index, vote) are modelled with a working store: the   *)
(* `?` exits of their queries are not taken.  The ingestion loop is        *)
(* modelled with its failures (read, copy, decode/save, insert).           *)
(* resize_all_images reads "{hash}.png" from raws, a name check_imports    *)
(* never writes, so it changes no store and has no action here.            *)
(*                                                                         *)
(* Specifications:                                                         *)
(*   Spec         every action, from empty stores (the whole system);      *)
(*   SpecIngest   the ingestion loop and the users filling imports;        *)
(*   SpecVote     concurrent votes beside one ingestion cycle, from        *)
(*                stores an earlier cycle filled;                          *)
(*   SpecNext     GET / beside one vote handler and one ingestion cycle;   *)
(*   SpecSampler  GET / alone over tables of 0..MaxPool rows;              *)
(*   SpecThreshold  GET / beside votes over rows on both sides of the      *)
(*                suppression threshold;                                   *)
(*   SpecRank     votes on one row that holds up to MaxVotes votes each    *)
(*                way;                                                     *)
(*   SpecIngestNext  GET / beside the ingestion loop;                      *)
(*   SpecIngestFair  SpecIngest with the ingestion task weakly fair.       *)
(* All but Spec are parts of it small enough to explore exhaustively.      *)
(***************************************************************************)
EXTENDS Integers, Sequences, FiniteSets, TLC

(***************************************************************************)
(* Bounds of the model.                                                    *)
(***************************************************************************)
NumVoters == 2        \* concurrent in-flight POST /vote requests
MaxVoteReqs == 2      \* vote requests accepted in one behaviour
MaxInbound == 2       \* files present in the imports tree at once
MaxCycles == 2        \* ingestion cycles in one behaviour
UnifDen == 4          \* the draw unif ranges over k / UnifDen, k < UnifDen
MaxPool == 3          \* rows of the table a sampler run starts from
MaxVotes == 4         \* upvotes, and downvotes, a row holds when a ranking run starts

(***************************************************************************)
(* f32 arithmetic in fixed point.                                          *)
(***************************************************************************)
Scale == 10000

F(i) == i * Scale

Half == Scale \div 2

FMul(a, b) == (a \div Scale) * b + ((a % Scale) * b) \div Scale

FDiv(a, b) == (a * Scale) \div b

FAbs(a) == IF a < 0 THEN 0 - a ELSE a

RECURSIVE SqrtSearch(_, _, _)
SqrtSearch(v, lo, hi) ==
  IF lo >= hi THEN lo
  ELSE LET mid == (lo + hi + 1) \div 2
       IN IF mid * mid <= v THEN SqrtSearch(v, mid, hi)
                            ELSE SqrtSearch(v, lo, mid - 1)

FSqrt(a) == SqrtSearch(a * Scale, 0, 4 * Scale)

(***************************************************************************)
(* Ranking engine.                                                         *)
(***************************************************************************)
z == (164485 * Scale) \div 100000

\* Variant: a row with downvotes only is scored by their number, sign dropped.
calc_sort_valueUnsigned(ups, downs) ==
  IF ups = 0
  THEN IF downs = 0 THEN Half ELSE F(downs)
  ELSE LET n == F(ups + downs)
           phat == FDiv(F(ups), n)
       IN FDiv(phat + FDiv(FMul(z, z), FMul(F(2), n))
                 - FMul(z, FSqrt(FDiv(FMul(phat, F(1) - phat)
                                        + FDiv(FMul(z, z), FMul(F(4), n)), n))),
               F(1) + FDiv(FMul(z, z), n))

calc_sort_value(ups, downs) ==
  IF ups = 0
  THEN IF downs = 0 THEN Half ELSE F(downs * (0 - 1))
  ELSE LET n == F(ups + downs)
           phat == FDiv(F(ups), n)
       IN FDiv(phat + FDiv(FMul(z, z), FMul(F(2), n))
                 - FMul(z, FSqrt(FDiv(FMul(phat, F(1) - phat)
                                        + FDiv(FMul(z, z), FMul(F(4), n)), n))),
               F(1) + FDiv(FMul(z, z), n))

new_confidence(new_sorting, upvotes, downvotes) ==
  FAbs(FMul(Half - new_sorting, FDiv(F(upvotes + downvotes), F(10))))

\* rank(u, d) of the specification: the pair the vote handler computes.
Rank(upvotes, downvotes) ==
  LET s == calc_sort_value(upvotes, downvotes)
  IN [sorting |-> s, confidence |-> new_confidence(s, upvotes, downvotes)]

(***************************************************************************)
(* State.                                                                  *)
(***************************************************************************)
VARIABLES
  images,        \* table images: id -> row
  imports,       \* files in the imports tree
  raws,          \* raws directory: files "{hash}.{ext}" with their bytes
  resized,       \* resized directory: files "{hash}.jpg"
  vpc,           \* per vote request: "idle", "selected" (after SELECT), "done"
  vreq,          \* per vote request: the VoteRequest {id, value}
  vrecord,       \* per vote request: the fetched record (Option)
  vres,          \* per vote request: the response status
  votesStarted,  \* vote requests accepted so far
  next,          \* GET / request: pc, count, skip and response
  ipc,           \* ingestion task: "sleep", "walk" (outer loop), "iter" (inner loop)
  walk_dirs,     \* check_imports: stack of directories to list
  files,         \* check_imports: entries the directory iterator still yields
  cycle,         \* ingestion cycles started so far
  cycleResult,   \* how the last cycle ended: "none", "running", "Ok", "Err"
  seen           \* history: per inbound file, how many cycles have read it

vars == <<images, imports, raws, resized, vpc, vreq, vrecord, vres, votesStarted,
          next, ipc, walk_dirs, files, cycle, cycleResult, seen>>

dbVars == <<images>>
fsVars == <<imports, raws, resized>>
voteVars == <<vpc, vreq, vrecord, vres, votesStarted>>
ingestVars == <<ipc, walk_dirs, files, cycle, cycleResult, seen>>

Voters == 1..NumVoters

\* req.value is an i8; these are the values the model sends.
VoteValues == {0 - 1, 1, 2}

\* Ids a vote request can name: those of the rows, and 0, which no row has.
RequestIds == DOMAIN images \cup {0}

None == <<>>
Some(x) == <<x>>

(***************************************************************************)
(* Metadata store: the queries of the source.                              *)
(***************************************************************************)
\* Columns the INSERT leaves to the schema: zero counts, neutral score.
SchemaDefaults ==
  [upvotes |-> 0, downvotes |-> 0, sorting |-> Half, confidence |-> 0]

\* ulid::Ulid::new(): an id no existing row has.
NewUlid(imgs) == Cardinality(DOMAIN imgs) + 1

\* INSERT INTO images ( id, filename, hash ) VALUES ( ?1, ?2, ?3 )
InsertImage(imgs, image_id, original_filename, hash_str) ==
  [i \in DOMAIN imgs \cup {image_id} |->
     IF i = image_id
     THEN [id |-> image_id, filename |-> original_filename, hash |-> hash_str,
           upvotes |-> SchemaDefaults.upvotes,
           downvotes |-> SchemaDefaults.downvotes,
           sorting |-> SchemaDefaults.sorting,
           confidence |-> SchemaDefaults.confidence]
     ELSE imgs[i]]

\* Variant: a missing row is read as a row of defaults.
SelectVoteRecordOrDefault(imgs, id) ==
  IF id \in DOMAIN imgs
  THEN Some([upvotes |-> imgs[id].upvotes, downvotes |-> imgs[id].downvotes,
             sorting |-> imgs[id].sorting, confidence |-> imgs[id].confidence])
  ELSE Some(SchemaDefaults)

\* SELECT upvotes, downvotes, sorting, confidence FROM images WHERE id = ?1
SelectVoteRecord(imgs, id) ==
  IF id \in DOMAIN imgs
  THEN Some([upvotes |-> imgs[id].upvotes, downvotes |-> imgs[id].downvotes,
             sorting |-> imgs[id].sorting, confidence |-> imgs[id].confidence])
  ELSE None

\* Variant: the UPDATE sets the counts and leaves the scores.
UpdateImageCountsOnly(imgs, id, upvotes, downvotes, new_sorting, confidence) ==
  [i \in DOMAIN imgs |->
     IF i = id
     THEN [imgs[i] EXCEPT !.upvotes = upvotes, !.downvotes = downvotes]
     ELSE imgs[i]]

\* Variant: a compare-and-swap, the UPDATE applies only to a row whose counts
\* are still one vote short of the new ones.
UpdateImageGuarded(imgs, id, upvotes, downvotes, new_sorting, confidence) ==
  [i \in DOMAIN imgs |->
     IF i = id /\ imgs[i].upvotes + imgs[i].downvotes + 1 = upvotes + downvotes
     THEN [imgs[i] EXCEPT !.upvotes = upvotes, !.downvotes = downvotes,
                          !.sorting = new_sorting, !.confidence = confidence]
     ELSE imgs[i]]

\* Variant: the UPDATE without its WHERE clause.
UpdateImageAllRows(imgs, id, upvotes, downvotes, new_sorting, confidence) ==
  [i \in DOMAIN imgs |->
     [imgs[i] EXCEPT !.upvotes = upvotes, !.downvotes = downvotes,
                     !.sorting = new_sorting, !.confidence = confidence]]

\* UPDATE images SET upvotes, downvotes, sorting, confidence WHERE id = ?5
UpdateImage(imgs, id, upvotes, downvotes, new_sorting, confidence) ==
  [i \in DOMAIN imgs |->
     IF i = id
     THEN [imgs[i] EXCEPT !.upvotes = upvotes, !.downvotes = downvotes,
                          !.sorting = new_sorting, !.confidence = confidence]
     ELSE imgs[i]]

\* Variant: the queries of get_next_pic without their WHERE clause.
EligibleAll(imgs) == DOMAIN imgs

\* WHERE sorting >= -3
Eligible(imgs) == {i \in DOMAIN imgs : imgs[i].sorting >= F(0 - 3)}

\* SELECT COUNT(*) FROM images WHERE sorting >= -3
CountEligible(imgs) == Cardinality(Eligible(imgs))

\* SELECT id, hash ... WHERE sorting >= -3 ORDER BY confidence ASC LIMIT 1 OFFSET ?1
\* The rows that can stand at position skip; rows of equal confidence come in
\* any order.
SelectAtOffset(imgs, skip) ==
  {i \in Eligible(imgs) :
     /\ Cardinality({j \in Eligible(imgs) : imgs[j].confidence < imgs[i].confidence})
          <= skip
     /\ skip < Cardinality({j \in Eligible(imgs) :
                              imgs[j].confidence <= imgs[i].confidence})}

(***************************************************************************)
(* Selection sampler.                                                      *)
(***************************************************************************)
Pow4(x) == x * x * x * x

\* biased_random(max) with the draw unif = k / UnifDen.  The quotient
\* (1/(unif+1)^4 - 1/2^4) / (1 - 1/2^4) is the fraction
\* (16 D^4 - (k+D)^4) / (15 (k+D)^4), D = UnifDen; the cast to i32 truncates.
biased_random(max, k) ==
  IF max = 0 THEN 0
  ELSE (max * (16 * Pow4(UnifDen) - Pow4(k + UnifDen))) \div (15 * Pow4(k + UnifDen))

(***************************************************************************)
(* Vote processor.                                                         *)
(***************************************************************************)
\* Variant: the two branches increment the other counter.
NewCountsSwapped(record, value) ==
  IF value = 1
  THEN Some([upvotes |-> record.upvotes, downvotes |-> record.downvotes + 1])
  ELSE IF value = 0 - 1
  THEN Some([upvotes |-> record.upvotes + 1, downvotes |-> record.downvotes])
  ELSE None

\* Variant: every positive value counts as an upvote.
NewCountsLoose(record, value) ==
  IF value >= 1
  THEN Some([upvotes |-> record.upvotes + 1, downvotes |-> record.downvotes])
  ELSE IF value = 0 - 1
  THEN Some([upvotes |-> record.upvotes, downvotes |-> record.downvotes + 1])
  ELSE None

\* The (upvotes, downvotes) the handler derives from the fetched record, or
\* None when req.value is neither 1 nor -1.
NewCounts(record, value) ==
  IF value = 1
  THEN Some([upvotes |-> record.upvotes + 1, downvotes |-> record.downvotes])
  ELSE IF value = 0 - 1
  THEN Some([upvotes |-> record.upvotes, downvotes |-> record.downvotes + 1])
  ELSE None

\* First half of vote: SELECT, then the NotFound and BadRequest responses.
VoteSelect(r, id, value) ==
  /\ vpc[r] = "idle"
  /\ votesStarted < MaxVoteReqs
  /\ votesStarted' = votesStarted + 1
  /\ LET record == SelectVoteRecord(images, id)
     IN /\ vreq' = [vreq EXCEPT ![r] = [id |-> id, value |-> value]]
        /\ vrecord' = [vrecord EXCEPT ![r] = record]
        /\ IF record = None
           THEN /\ vpc' = [vpc EXCEPT ![r] = "done"]
                /\ vres' = [vres EXCEPT ![r] = "NotFound"]
           ELSE IF NewCounts(record[1], value) = None
           THEN /\ vpc' = [vpc EXCEPT ![r] = "done"]
                /\ vres' = [vres EXCEPT ![r] = "BadRequest"]
           ELSE /\ vpc' = [vpc EXCEPT ![r] = "selected"]
                /\ vres' = [vres EXCEPT ![r] = "pending"]
  /\ UNCHANGED <<dbVars, fsVars, next, ingestVars>>

\* Second half of vote: rank the new counts, UPDATE, report success.
VoteUpdate(r) ==
  /\ vpc[r] = "selected"
  /\ LET c == NewCounts(vrecord[r][1], vreq[r].value)[1]
         new_sorting == calc_sort_value(c.upvotes, c.downvotes)
         confidence == new_confidence(new_sorting, c.upvotes, c.downvotes)
     IN images' = UpdateImage(images, vreq[r].id, c.upvotes, c.downvotes,
                              new_sorting, confidence)
  /\ vpc' = [vpc EXCEPT ![r] = "done"]
  /\ vres' = [vres EXCEPT ![r] = "Ok"]
  /\ UNCHANGED <<fsVars, vreq, vrecord, votesStarted, next, ingestVars>>

\* The response is out: the handler is free for the next request.
VoteReturn(r) ==
  /\ vpc[r] = "done"
  /\ vpc' = [vpc EXCEPT ![r] = "idle"]
  /\ vreq' = [vreq EXCEPT ![r] = [id |-> 0, value |-> 0]]
  /\ vrecord' = [vrecord EXCEPT ![r] = None]
  /\ vres' = [vres EXCEPT ![r] = "none"]
  /\ UNCHANGED <<dbVars, fsVars, votesStarted, next, ingestVars>>

(***************************************************************************)
(* GET /: index and get_next_pic.                                          *)
(***************************************************************************)
\* First query of get_next_pic, then the draw.
GetCount(k) ==
  /\ next.pc # "counted"
  /\ LET count == CountEligible(images)
     IN next' = [pc |-> "counted", count |-> count, unif |-> k,
                 skip |-> biased_random(count, k), result |-> None,
                 status |-> "pending"]
  /\ UNCHANGED <<dbVars, fsVars, voteVars, ingestVars>>

\* Second query of get_next_pic, and the response of index.
GetSelect ==
  /\ next.pc = "counted"
  /\ LET rows == SelectAtOffset(images, next.skip)
     IN IF rows = {}
        THEN next' = [next EXCEPT !.pc = "done", !.result = None,
                                  !.status = "InternalServerError"]
        ELSE \E i \in rows :
               next' = [next EXCEPT !.pc = "done",
                          !.result = Some([id |-> images[i].id, hash |-> images[i].hash]),
                          !.status = "Ok"]
  /\ UNCHANGED <<dbVars, fsVars, voteVars, ingestVars>>

(***************************************************************************)
(* Ingestion: the imports tree, the hasher, save_image and check_imports.  *)
(***************************************************************************)
Root == "imports"
Sub == "imports/sub"

\* Bytes are small integers; 0 stands for bytes image::open cannot decode.
Decodable(data) == data # 0

\* Files a user can put into the imports tree.
InboundUniverse ==
  { [kind |-> "file", name |-> "a", ext |-> "jpg",  dir |-> Root, data |-> 1],
    [kind |-> "file", name |-> "b", ext |-> "JPG",  dir |-> Sub,  data |-> 1],
    [kind |-> "file", name |-> "c", ext |-> "jpeg", dir |-> Root, data |-> 1],
    [kind |-> "file", name |-> "d", ext |-> "jpg",  dir |-> Root, data |-> 0],
    [kind |-> "file", name |-> "e", ext |-> "png",  dir |-> Root, data |-> 2],
    [kind |-> "file", name |-> "f", ext |-> "",     dir |-> Sub,  data |-> 2] }

\* The directory entry of the subdirectory imports/sub.
SubDirEntry == [kind |-> "dir", name |-> "sub", ext |-> "", dir |-> Root, data |-> 0]

\* fs::read_dir(dir): the entries of one directory.
ReadDirEntries(dir) ==
  {f \in imports : f.dir = dir} \cup (IF dir = Root THEN {SubDirEntry} ELSE {})

\* String::to_lowercase on the extensions of the model.
to_lowercase(ext) ==
  CASE ext = "JPG" -> "jpg"
    [] ext = "JPEG" -> "jpeg"
    [] ext = "PNG" -> "png"
    [] OTHER -> ext

\* XxHash64::with_seed(0) over the bytes: a value the bytes alone determine.
XxHash64(data) == <<"xxh64", data>>

\* format!("{file_hash}.{ext}") under raws_path.
RawName(file_hash, ext) == [hash |-> file_hash, ext |-> ext]

\* Variant: the existence test never finds the file.
RawExistsNever(rs, raw) == FALSE

\* raw_image_path.exists()
RawExists(rs, raw) == \E x \in rs : RawName(x.hash, x.ext) = raw

\* fs::copy(original_image_path, raw_image_path): creates or overwrites.
CopyToRaws(rs, raw, data) ==
  {x \in rs : RawName(x.hash, x.ext) # raw}
    \cup {[hash |-> raw.hash, ext |-> raw.ext, data |-> data]}

\* resized_img.save("{hash}.jpg"): creates or overwrites.
SaveResized(rz, hash, data) ==
  {x \in rz : x.hash # hash} \cup {[hash |-> hash, data |-> data]}

\* original_image_path.file_name()
FileName(f) == [name |-> f.name, ext |-> f.ext]

\* How far save_image gets: the step whose `?` returns the error, or "ok".
SaveOutcomes == {"copyErr", "resizeErr", "dbErr", "ok"}

\* Variant: save_image inserts the row first, then copies and renders.
SaveImageInsertFirst(outcome, f, raw, hash) ==
  LET inserted == outcome # "dbErr"
      copied == inserted /\ outcome # "copyErr"
      rendered == copied /\ outcome # "resizeErr"
  IN [raws |-> IF copied THEN CopyToRaws(raws, raw, f.data) ELSE raws,
      resized |-> IF rendered THEN SaveResized(resized, hash, f.data) ELSE resized,
      images |-> IF inserted
                 THEN InsertImage(images, NewUlid(images), FileName(f), hash)
                 ELSE images]

\* save_image: the stores after it ran to `outcome`.
SaveImage(outcome, f, raw, hash) ==
  LET copied == outcome # "copyErr"
      rendered == copied /\ outcome # "resizeErr"
      inserted == rendered /\ outcome # "dbErr"
  IN [raws |-> IF copied THEN CopyToRaws(raws, raw, f.data) ELSE raws,
      resized |-> IF rendered THEN SaveResized(resized, hash, f.data) ELSE resized,
      images |-> IF inserted
                 THEN InsertImage(images, NewUlid(images), FileName(f), hash)
                 ELSE images]

\* The outcomes save_image can have on these bytes: undecodable bytes never
\* get past resize_img.
PossibleOutcomes(f) ==
  IF Decodable(f.data) THEN SaveOutcomes ELSE {"copyErr", "resizeErr"}

\* A user puts a file into the imports tree.
Drop(f) ==
  /\ f \notin imports
  /\ Cardinality(imports) < MaxInbound
  /\ imports' = imports \cup {f}
  /\ UNCHANGED <<dbVars, raws, resized, voteVars, next, ingestVars>>

\* The supervisor loop of main: the sleep ends, check_imports is called.
CheckImportsStart ==
  /\ ipc = "sleep"
  /\ cycle < MaxCycles
  /\ cycle' = cycle + 1
  /\ ipc' = "walk"
  /\ walk_dirs' = <<Root>>
  /\ files' = {}
  /\ cycleResult' = "running"
  /\ UNCHANGED <<dbVars, fsVars, voteVars, next, seen>>

\* Variant: an error of check_imports ends the supervisor task.
FailCycleStops ==
  /\ ipc' = "stopped"
  /\ walk_dirs' = <<>>
  /\ files' = {}
  /\ cycleResult' = "Err"

\* The cycle ends with an error: the supervisor logs it and sleeps.
FailCycle ==
  /\ ipc' = "sleep"
  /\ walk_dirs' = <<>>
  /\ files' = {}
  /\ cycleResult' = "Err"

\* while !walk_dirs.is_empty(): pop a directory and list it.
ReadDir ==
  /\ ipc = "walk"
  /\ walk_dirs # <<>>
  /\ LET dir == walk_dirs[Len(walk_dirs)]
     IN /\ walk_dirs' = SubSeq(walk_dirs, 1, Len(walk_dirs) - 1)
        /\ files' = ReadDirEntries(dir)
  /\ ipc' = "iter"
  /\ UNCHANGED <<dbVars, fsVars, voteVars, next, cycle, cycleResult, seen>>

\* fs::read_dir fails.
ReadDirFail ==
  /\ ipc = "walk"
  /\ walk_dirs # <<>>
  /\ FailCycle
  /\ UNCHANGED <<dbVars, fsVars, voteVars, next, cycle, seen>>

\* The work-list is empty: check_imports returns Ok, the supervisor sleeps.
CheckImportsDone ==
  /\ ipc = "walk"
  /\ walk_dirs = <<>>
  /\ ipc' = "sleep"
  /\ cycleResult' = "Ok"
  /\ UNCHANGED <<dbVars, fsVars, voteVars, next, walk_dirs, files, cycle, seen>>

\* files.next_entry() yields None: back to the outer loop.
EndOfDir ==
  /\ ipc = "iter"
  /\ files = {}
  /\ ipc' = "walk"
  /\ UNCHANGED <<dbVars, fsVars, voteVars, next, walk_dirs, files, cycle,
                 cycleResult, seen>>

\* One entry that is skipped or pushed: a directory, a file without an
\* extension, a file whose extension is not jpg or jpeg.
SkipEntry(e) ==
  /\ ipc = "iter"
  /\ e \in files
  /\ \/ e.kind = "dir"
     \/ e.ext = ""
     \/ to_lowercase(e.ext) \notin {"jpg", "jpeg"}
  /\ files' = files \ {e}
  /\ walk_dirs' = IF e.kind = "dir" THEN Append(walk_dirs, Sub) ELSE walk_dirs
  /\ UNCHANGED <<dbVars, fsVars, voteVars, next, ipc, cycle, cycleResult, seen>>

IsImage(e) ==
  /\ e.kind = "file"
  /\ e.ext # ""
  /\ to_lowercase(e.ext) \in {"jpg", "jpeg"}

\* One jpg/jpeg entry whose fs::read fails: the cycle ends with the error.
ReadFileFail(e) ==
  /\ ipc = "iter"
  /\ e \in files
  /\ IsImage(e)
  /\ seen' = [seen EXCEPT ![e] = @ + 1]
  /\ FailCycle
  /\ UNCHANGED <<dbVars, fsVars, voteVars, next, cycle>>

\* One jpg/jpeg entry that is read and hashed: skipped when its raw file
\* exists, handed to save_image otherwise.
IngestEntry(e, outcome) ==
  /\ ipc = "iter"
  /\ e \in files
  /\ IsImage(e)
  /\ seen' = [seen EXCEPT ![e] = @ + 1]
  /\ LET file_hash == XxHash64(e.data)
         raw_image_path == RawName(file_hash, to_lowercase(e.ext))
     IN IF RawExists(raws, raw_image_path)
        THEN /\ outcome = "ok"
             /\ files' = files \ {e}
             /\ UNCHANGED <<images, raws, resized, ipc, walk_dirs, cycleResult>>
        ELSE /\ outcome \in PossibleOutcomes(e)
             /\ LET after == SaveImage(outcome, e, raw_image_path, file_hash)
                IN /\ raws' = after.raws
                   /\ resized' = after.resized
                   /\ images' = after.images
             /\ IF outcome = "ok"
                THEN /\ files' = files \ {e}
                     /\ UNCHANGED <<ipc, walk_dirs, cycleResult>>
                ELSE FailCycle
  /\ UNCHANGED <<imports, voteVars, next, cycle>>

(***************************************************************************)
(* Specification.                                                          *)
(***************************************************************************)
Init ==
  /\ images = [i \in {} |-> 0]
  /\ imports = {}
  /\ raws = {}
  /\ resized = {}
  /\ vpc = [r \in Voters |-> "idle"]
  /\ vreq = [r \in Voters |-> [id |-> 0, value |-> 0]]
  /\ vrecord = [r \in Voters |-> None]
  /\ vres = [r \in Voters |-> "none"]
  /\ votesStarted = 0
  /\ next = [pc |-> "idle", count |-> 0, unif |-> 0, skip |-> 0, result |-> None,
             status |-> "none"]
  /\ ipc = "sleep"
  /\ walk_dirs = <<>>
  /\ files = {}
  /\ cycle = 0
  /\ cycleResult = "none"
  /\ seen = [f \in InboundUniverse |-> 0]

Next ==
  \/ \E r \in Voters, id \in RequestIds, value \in VoteValues :
       VoteSelect(r, id, value)
  \/ \E r \in Voters : VoteUpdate(r)
  \/ \E r \in Voters : VoteReturn(r)
  \/ \E k \in 0..(UnifDen - 1) : GetCount(k)
  \/ GetSelect
  \/ \E f \in InboundUniverse : Drop(f)
  \/ CheckImportsStart
  \/ ReadDir
  \/ ReadDirFail
  \/ CheckImportsDone
  \/ EndOfDir
  \/ \E e \in files : SkipEntry(e)
  \/ \E e \in files : ReadFileFail(e)
  \/ \E e \in files, outcome \in SaveOutcomes : IngestEntry(e, outcome)

\* The whole system from empty stores.
Spec == Init /\ [][Next]_vars

(***************************************************************************)
(* The server restarted over stores a previous cycle filled: a.jpg was     *)
(* ingested, c.jpeg arrived since, one more cycle is to run.               *)
(***************************************************************************)
FileA == [kind |-> "file", name |-> "a", ext |-> "jpg", dir |-> Root, data |-> 1]
FileC == [kind |-> "file", name |-> "c", ext |-> "jpeg", dir |-> Root, data |-> 1]

InitStored ==
  /\ images = InsertImage([i \in {} |-> 0], 1, FileName(FileA), XxHash64(FileA.data))
  /\ imports = {FileA, FileC}
  /\ raws = CopyToRaws({}, RawName(XxHash64(FileA.data), "jpg"), FileA.data)
  /\ resized = SaveResized({}, XxHash64(FileA.data), FileA.data)
  /\ vpc = [r \in Voters |-> "idle"]
  /\ vreq = [r \in Voters |-> [id |-> 0, value |-> 0]]
  /\ vrecord = [r \in Voters |-> None]
  /\ vres = [r \in Voters |-> "none"]
  /\ votesStarted = 0
  /\ next = [pc |-> "idle", count |-> 0, unif |-> 0, skip |-> 0, result |-> None,
             status |-> "none"]
  /\ ipc = "sleep"
  /\ walk_dirs = <<>>
  /\ files = {}
  /\ cycle = MaxCycles - 1
  /\ cycleResult = "Ok"
  /\ seen = [f \in InboundUniverse |-> IF f = FileA THEN 1 ELSE 0]

NextVotes ==
  \/ \E r \in Voters, id \in RequestIds, value \in VoteValues :
       VoteSelect(r, id, value)
  \/ \E r \in Voters : VoteUpdate(r)
  \/ \E r \in Voters : VoteReturn(r)

\* One vote request in flight at a time.
NextOneVote ==
  \/ \E id \in RequestIds, value \in VoteValues : VoteSelect(1, id, value)
  \/ VoteUpdate(1)
  \/ VoteReturn(1)

NextRequests ==
  \/ \E k \in 0..(UnifDen - 1) : GetCount(k)
  \/ GetSelect

NextCycle ==
  \/ CheckImportsStart
  \/ ReadDir
  \/ ReadDirFail
  \/ CheckImportsDone
  \/ EndOfDir
  \/ \E e \in files : SkipEntry(e)
  \/ \E e \in files : ReadFileFail(e)
  \/ \E e \in files, outcome \in SaveOutcomes : IngestEntry(e, outcome)

NextIngest == NextCycle \/ \E f \in InboundUniverse : Drop(f)

\* Concurrent votes beside one ingestion cycle.
SpecVote == InitStored /\ [][NextVotes \/ NextCycle]_vars

\* GET / beside votes and one ingestion cycle.
SpecNext == InitStored /\ [][NextRequests \/ NextOneVote \/ NextCycle]_vars

\* The ingestion loop and the users who fill the imports tree.
SpecIngest == Init /\ [][NextIngest]_vars

\* GET / beside the ingestion loop.
SpecIngestNext == Init /\ [][NextIngest \/ NextRequests]_vars

\* The same, the ingestion task always scheduled again: the sleep of the
\* supervisor ends and every await of check_imports returns.
SpecIngestFair == SpecIngest /\ WF_vars(NextCycle)

(***************************************************************************)
(* The server restarted over a table of n rows, n <= MaxPool, each fresh,  *)
(* voted up once, or voted down four times (suppressed); GET / alone.      *)
(***************************************************************************)
PoolCounts == {<<0, 0>>, <<1, 0>>, <<0, 4>>}

PoolRow(i, c) ==
  [id |-> i, filename |-> [name |-> "p", ext |-> "jpg"], hash |-> XxHash64(i),
   upvotes |-> c[1], downvotes |-> c[2],
   sorting |-> calc_sort_value(c[1], c[2]),
   confidence |-> new_confidence(calc_sort_value(c[1], c[2]), c[1], c[2])]

InitPool ==
  /\ \E n \in 0..MaxPool : \E counts \in [1..n -> PoolCounts] :
       /\ images = [i \in 1..n |-> PoolRow(i, counts[i])]
       /\ raws = {[hash |-> XxHash64(i), ext |-> "jpg", data |-> i] : i \in 1..n}
       /\ resized = {[hash |-> XxHash64(i), data |-> i] : i \in 1..n}
  /\ imports = {}
  /\ vpc = [r \in Voters |-> "idle"]
  /\ vreq = [r \in Voters |-> [id |-> 0, value |-> 0]]
  /\ vrecord = [r \in Voters |-> None]
  /\ vres = [r \in Voters |-> "none"]
  /\ votesStarted = 0
  /\ next = [pc |-> "idle", count |-> 0, unif |-> 0, skip |-> 0, result |-> None,
             status |-> "none"]
  /\ ipc = "sleep"
  /\ walk_dirs = <<>>
  /\ files = {}
  /\ cycle = 0
  /\ cycleResult = "none"
  /\ seen = [f \in InboundUniverse |-> 0]

SpecSampler == InitPool /\ [][NextRequests]_vars

(***************************************************************************)
(* The server restarted over a table of three rows: one fresh, one voted   *)
(* down three times (sorting -3, the threshold of the WHERE clause), one   *)
(* voted down four times (suppressed); GET / beside votes.                 *)
(***************************************************************************)
ThresholdCounts == <<(<<0, 0>>), (<<0, 3>>), (<<0, 4>>)>>

InitThreshold ==
  /\ images = [i \in DOMAIN ThresholdCounts |-> PoolRow(i, ThresholdCounts[i])]
  /\ raws = {[hash |-> XxHash64(i), ext |-> "jpg", data |-> i] :
               i \in DOMAIN ThresholdCounts}
  /\ resized = {[hash |-> XxHash64(i), data |-> i] : i \in DOMAIN ThresholdCounts}
  /\ imports = {}
  /\ vpc = [r \in Voters |-> "idle"]
  /\ vreq = [r \in Voters |-> [id |-> 0, value |-> 0]]
  /\ vrecord = [r \in Voters |-> None]
  /\ vres = [r \in Voters |-> "none"]
  /\ votesStarted = 0
  /\ next = [pc |-> "idle", count |-> 0, unif |-> 0, skip |-> 0, result |-> None,
             status |-> "none"]
  /\ ipc = "sleep"
  /\ walk_dirs = <<>>
  /\ files = {}
  /\ cycle = 0
  /\ cycleResult = "none"
  /\ seen = [f \in InboundUniverse |-> 0]

SpecThreshold == InitThreshold /\ [][NextRequests \/ NextOneVote]_vars

(***************************************************************************)
(* The server restarted over a table of one row that holds u upvotes and   *)
(* d downvotes, u, d <= MaxVotes; votes arrive one at a time.              *)
(***************************************************************************)
InitRanked ==
  /\ \E u \in 0..MaxVotes, d \in 0..MaxVotes :
       /\ images = [i \in {1} |-> PoolRow(i, <<u, d>>)]
       /\ raws = {[hash |-> XxHash64(1), ext |-> "jpg", data |-> 1]}
       /\ resized = {[hash |-> XxHash64(1), data |-> 1]}
  /\ imports = {}
  /\ vpc = [r \in Voters |-> "idle"]
  /\ vreq = [r \in Voters |-> [id |-> 0, value |-> 0]]
  /\ vrecord = [r \in Voters |-> None]
  /\ vres = [r \in Voters |-> "none"]
  /\ votesStarted = 0
  /\ next = [pc |-> "idle", count |-> 0, unif |-> 0, skip |-> 0, result |-> None,
             status |-> "none"]
  /\ ipc = "sleep"
  /\ walk_dirs = <<>>
  /\ files = {}
  /\ cycle = 0
  /\ cycleResult = "none"
  /\ seen = [f \in InboundUniverse |-> 0]

SpecRank == InitRanked /\ [][NextOneVote]_vars

(***************************************************************************)
(* Properties of the vote processor.                                       *)
(***************************************************************************)
\* The step is request r's SELECT (the request is vreq'[r]).
VoteSelectStep(r) == vpc[r] = "idle" /\ vpc'[r] # "idle"

\* The step is request r's UPDATE.
VoteUpdateStep(r) == vpc[r] = "selected" /\ vpc'[r] = "done"

\* The row still holds what request r fetched: nothing wrote it in between.
RowAsFetched(r) ==
  /\ vreq[r].id \in DOMAIN images
  /\ SelectVoteRecord(images, vreq[r].id) = vrecord[r]

\* C1: a vote of +1 or -1 whose read and write are not interleaved with
\* another write moves the row from (u, d) to (u+1, d) or (u, d+1), stores
\* rank() of the new counts as sorting and confidence, and reports success.
C1_VoteTransition ==
  [][\A r \in Voters :
       (VoteUpdateStep(r) /\ RowAsFetched(r)) =>
         LET id == vreq[r].id
             u == images[id].upvotes
             d == images[id].downvotes
             nu == IF vreq[r].value = 1 THEN u + 1 ELSE u
             nd == IF vreq[r].value = 0 - 1 THEN d + 1 ELSE d
         IN /\ vreq[r].value \in {1, 0 - 1}
            /\ images'[id].upvotes = nu
            /\ images'[id].downvotes = nd
            /\ images'[id].sorting = Rank(nu, nd).sorting
            /\ images'[id].confidence = Rank(nu, nd).confidence
            /\ vres'[r] = "Ok"]_vars

\* A +1 on a fresh (0, 0) row has been applied: the row is at (1, 0) with
\* rank(1, 0).
C1_Witness ==
  \E r \in Voters :
    /\ vpc[r] = "done"
    /\ vres[r] = "Ok"
    /\ vreq[r].value = 1
    /\ vrecord[r] = Some(SchemaDefaults)
    /\ images[vreq[r].id].upvotes = 1
    /\ images[vreq[r].id].downvotes = 0
    /\ images[vreq[r].id].sorting = Rank(1, 0).sorting
    /\ images[vreq[r].id].confidence = Rank(1, 0).confidence

C3_NotFound ==
  [][\A r \in Voters :
       (VoteSelectStep(r) /\ vreq'[r].id \notin DOMAIN images) =>
         /\ vpc'[r] = "done"
         /\ vres'[r] = "NotFound"
         /\ images' = images]_vars

\* A +1 on an unknown id has ended with NotFound while rows exist.
C3_Witness ==
  \E r \in Voters :
    /\ vpc[r] = "done"
    /\ vreq[r].id \notin DOMAIN images
    /\ vreq[r].value = 1
    /\ vres[r] = "NotFound"
    /\ DOMAIN images # {}

\* C4: in every state every row's sorting and confidence are rank() of the
\* upvotes and downvotes of the same row.
C4_RankConsistent ==
  \A i \in DOMAIN images :
    /\ images[i].sorting = Rank(images[i].upvotes, images[i].downvotes).sorting
    /\ images[i].confidence = Rank(images[i].upvotes, images[i].downvotes).confidence

\* A row that took an upvote and a downvote beside a row ingested since.
C4_Witness ==
  \E i, j \in DOMAIN images :
    /\ images[i].upvotes = 1
    /\ images[i].downvotes = 1
    /\ images[j].filename = FileName(FileC)
    /\ images[j].upvotes = 0
    /\ images[j].downvotes = 0

\* C5: no step makes a row's upvotes or downvotes smaller, and they are never
\* negative, whatever the interleaving of the votes.
C5_CountsMonotone ==
  [][\A i \in DOMAIN images :
       /\ images[i].upvotes >= 0
       /\ images[i].downvotes >= 0
       /\ images'[i].upvotes >= images[i].upvotes
       /\ images'[i].downvotes >= images[i].downvotes]_vars

\* C6: the UPDATE is not guarded: whatever the row holds by then, it is
\* overwritten with the counts derived from what the request fetched, and the
\* request reports success.
C6_UnguardedWrite ==
  [][\A r \in Voters :
       VoteUpdateStep(r) =>
         /\ images'[vreq[r].id].upvotes
              = vrecord[r][1].upvotes + (IF vreq[r].value = 1 THEN 1 ELSE 0)
         /\ images'[vreq[r].id].downvotes
              = vrecord[r][1].downvotes + (IF vreq[r].value = 1 THEN 0 ELSE 1)
         /\ vres'[r] = "Ok"]_vars

\* Two votes on one row fetched the same counts, both reported success, and
\* the row's votes grew by one.
C6_LostUpdate ==
  \E r1, r2 \in Voters :
    /\ r1 # r2
    /\ vpc[r1] = "done" /\ vpc[r2] = "done"
    /\ vres[r1] = "Ok" /\ vres[r2] = "Ok"
    /\ vreq[r1].id = vreq[r2].id
    /\ vrecord[r1] = vrecord[r2]
    /\ images[vreq[r1].id].upvotes + images[vreq[r1].id].downvotes
         = vrecord[r1][1].upvotes + vrecord[r1][1].downvotes + 1

(***************************************************************************)
(* Properties of the ingestion pipeline.                                   *)
(***************************************************************************)
\* The raw files and the rows that stem from inbound file f: those under its
\* canonical name "{hash}.{ext}".
RawsFor(rs, f) ==
  {x \in rs : x.hash = XxHash64(f.data) /\ x.ext = to_lowercase(f.ext)}

RecordsFor(imgs, f) ==
  {i \in DOMAIN imgs :
     /\ imgs[i].hash = XxHash64(f.data)
     /\ to_lowercase(imgs[i].filename.ext) = to_lowercase(f.ext)}

\* The step is check_imports reading inbound file f.
ReadsFile(f) == seen'[f] = seen[f] + 1

\* C7 as stated: once a file has been seen in two or more cycles, every cycle
\* ends with exactly one raw file and exactly one row for it, and the second
\* and later cycles that see it write nothing to the three stores.
C7_IdempotentExactlyOne ==
  [][\A f \in InboundUniverse :
       /\ (ipc' = "sleep" /\ seen'[f] >= 2) =>
            /\ Cardinality(RawsFor(raws', f)) = 1
            /\ Cardinality(RecordsFor(images', f)) = 1
       /\ (ReadsFile(f) /\ seen[f] >= 1) =>
            UNCHANGED <<raws, resized, images>>]_vars

\* C7 amended: however often a file is seen, there is at most one raw file
\* and at most one row for it, and a cycle that finds its raw file present
\* writes nothing to the three stores.
C7_Idempotent ==
  [][\A f \in InboundUniverse :
       /\ Cardinality(RawsFor(raws', f)) <= 1
       /\ Cardinality(RecordsFor(images', f)) <= 1
       /\ (ReadsFile(f) /\ RawsFor(raws, f) # {}) =>
            UNCHANGED <<raws, resized, images>>]_vars

\* A file was read in two cycles; one raw file and one row stand for it.
C7_Witness ==
  \E f \in InboundUniverse :
    /\ seen[f] >= 2
    /\ ipc = "sleep"
    /\ Cardinality(RawsFor(raws, f)) = 1
    /\ Cardinality(RecordsFor(images, f)) = 1

\* C8: inbound files of identical bytes have one hash and one row: no two
\* rows share a hash.
C8_NoSharedHash ==
  /\ \A f, g \in InboundUniverse :
       f.data = g.data => XxHash64(f.data) = XxHash64(g.data)
  /\ \A i, j \in DOMAIN images :
       i # j => images[i].hash # images[j].hash

(***************************************************************************)
(* Properties of the selection sampler and of GET /.                       *)
(***************************************************************************)
\* C9: on an empty pool the sampler returns none; the draw unif = 0 gives
\* offset 0 for every pool size; for a pool of N > 0 rows the offset lies in
\* [0, N).
C9_SamplerBoundary ==
  /\ (next.pc = "done" /\ next.count = 0) => next.result = None
  /\ (next.pc # "idle" /\ next.unif = 0) => next.skip = 0
  /\ (next.pc # "idle" /\ next.count > 0) =>
       (0 <= next.skip /\ next.skip < next.count)

\* C10: a GET / that counted at least one eligible row returns a row.
C10_NoneOnlyWhenEmpty ==
  (next.pc = "done" /\ next.count > 0) => next.result # None

\* The step is the second query of get_next_pic.
GetSelectStep == next.pc = "counted" /\ next'.pc = "done"

\* The rows whose sorting is below the threshold of the WHERE clause.
Suppressed(imgs) == {i \in DOMAIN imgs : imgs[i].sorting < F(0 - 3)}

\* C11: the row get_next_pic returns is a row of the table whose stored
\* sorting is >= -3 when the query selects it, for every draw, every table
\* and every vote that lands between the count and the selection.
C11_NeverSuppressed ==
  [][(GetSelectStep /\ next'.result # None) =>
       \E i \in DOMAIN images :
         /\ next'.result = Some([id |-> images[i].id, hash |-> images[i].hash])
         /\ images[i].sorting >= F(0 - 3)]_vars

\* GET / returned a row of a table that holds a suppressed row as well.
C11_Witness ==
  /\ next.pc = "done"
  /\ next.result # None
  /\ Suppressed(images) # {}
  /\ next.result[1].id \notin Suppressed(images)

\* C17: a row whose stored sorting is below -3 keeps a sorting below -3 in
\* every step, of a vote or of anything else.
C17_SuppressionPermanent ==
  [][\A i \in Suppressed(images) : i \in Suppressed(images')]_vars

(***************************************************************************)
(* Frame of the metadata store.                                            *)
(***************************************************************************)
\* C18: no step removes a row or changes the id, filename or hash of a row;
\* the UPDATE of a vote changes no row but the one its id names and adds
\* none; every other step (a vote that fails or only reads, an ingestion
\* step) leaves every existing row as it was.
C18_Frame ==
  [][/\ DOMAIN images \subseteq DOMAIN images'
     /\ \A i \in DOMAIN images :
          /\ images'[i].id = images[i].id
          /\ images'[i].filename = images[i].filename
          /\ images'[i].hash = images[i].hash
     /\ \A r \in Voters :
          VoteUpdateStep(r) =>
            /\ DOMAIN images' = DOMAIN images
            /\ \A i \in DOMAIN images \ {vreq[r].id} : images'[i] = images[i]
     /\ (\A r \in Voters : ~VoteUpdateStep(r)) =>
          \A i \in DOMAIN images : images'[i] = images[i]]_vars

\* A vote was applied to one of two rows; the other row holds its defaults.
C18_Witness ==
  \E r \in Voters : \E j \in DOMAIN images :
    /\ vpc[r] = "done"
    /\ vres[r] = "Ok"
    /\ j # vreq[r].id
    /\ images[vreq[r].id].upvotes + images[vreq[r].id].downvotes = 1
    /\ images[j].upvotes = 0 /\ images[j].downvotes = 0
    /\ images[j].sorting = Half /\ images[j].confidence = 0

\* C19: in every state every row with hash h has its raw file "h.<ext>" and
\* its rendition "h.jpg", whatever ingestion failed part-way; so the row
\* GET / returns has its rendition.
C19_RecordHasFiles ==
  /\ \A i \in DOMAIN images :
       /\ \E x \in raws : /\ x.hash = images[i].hash
                          /\ x.ext = to_lowercase(images[i].filename.ext)
       /\ \E y \in resized : y.hash = images[i].hash
  /\ next.result # None => \E y \in resized : y.hash = next.result[1].hash

\* GET / returned a row while another file's ingestion had failed after its
\* raw copy, before its rendition.
C19_Witness ==
  /\ next.pc = "done"
  /\ next.result # None
  /\ \E x \in raws : \A y \in resized : y.hash # x.hash

\* C20: between cycles, whether the last one completed or failed, every file
\* of the raw store has a row with its hash.
C20_NoOrphanRaw ==
  ipc = "sleep" =>
    \A x \in raws : \E i \in DOMAIN images : images[i].hash = x.hash

(***************************************************************************)
(* Properties of the ingestion supervisor.                                 *)
(***************************************************************************)
\* C14: a cycle begins only while the supervisor sleeps after the previous
\* one completed or failed (no two cycles overlap); every cycle that began
\* ends, as Ok or as Err; and after every cycle, Ok or Err, the supervisor
\* begins another one (up to the MaxCycles cycles of the model).
C14_SupervisorNeverStops ==
  /\ [][cycle' # cycle =>
          /\ ipc = "sleep" /\ cycleResult # "running"
          /\ cycle' = cycle + 1
          /\ ipc' = "walk" /\ cycleResult' = "running"]_vars
  /\ [][(ipc # "sleep" /\ ipc' = "sleep") => cycleResult' \in {"Ok", "Err"}]_vars
  /\ (ipc # "sleep") ~> (ipc = "sleep" /\ cycleResult \in {"Ok", "Err"})
  /\ \A c \in 0..(MaxCycles - 1) : (ipc = "sleep" /\ cycle = c) ~> (cycle = c + 1)

\* A cycle failed after its raw copy (the raw file has no row), and a cycle
\* that began after it has completed.
C14_Witness ==
  /\ ipc = "sleep"
  /\ cycleResult = "Ok"
  /\ cycle >= 2
  /\ \E x \in raws : \A i \in DOMAIN images : images[i].hash # x.hash

\* Inbound file f is ingested: its raw file, its rendition and its row exist.
Ingested(rs, rz, imgs, f) ==
  /\ RawsFor(rs, f) # {}
  /\ \E x \in rz : x.hash = XxHash64(f.data)
  /\ RecordsFor(imgs, f) # {}

\* C15: a cycle in which the read, copy or decode of one inbound file failed
\* (here a file of undecodable bytes, which no store error can concern) ends
\* with every valid image of the same directory listing ingested.
C15_FailureSkipsOneFile ==
  [][\A e \in files \cap InboundUniverse :
       (ReadsFile(e) /\ ~Decodable(e.data) /\ ipc' = "sleep") =>
         \A f \in files \ {e} :
           (IsImage(f) /\ Decodable(f.data)) =>
             Ingested(raws', resized', images', f)]_vars

\* The canonical raw path "{hash}.{ext}" of inbound file f.
CanonicalRaw(f) == RawName(XxHash64(f.data), to_lowercase(f.ext))

\* C16: processing an inbound file whose canonical raw path exists changes
\* neither the raw store, the rendition store, the metadata store nor the
\* imports tree, and the cycle goes on with the rest of the listing.
C16_DuplicateNoOp ==
  [][\A f \in InboundUniverse :
       (ReadsFile(f) /\ RawsFor(raws, f) # {}) =>
         /\ UNCHANGED <<raws, resized, images, imports>>
         /\ ipc' = "iter" => (files' = files \ {f} /\ UNCHANGED <<walk_dirs, cycleResult>>)]_vars

\* Two inbound files of one canonical raw path were both read in a first
\* cycle that completed: one was stored, the other was a duplicate.
C16_Witness ==
  \E f, g \in InboundUniverse :
    /\ f # g
    /\ CanonicalRaw(f) = CanonicalRaw(g)
    /\ seen[f] = 1 /\ seen[g] = 1
    /\ cycle = 1 /\ ipc = "sleep" /\ cycleResult = "Ok"
    /\ Cardinality(raws) = 1
    /\ Cardinality(DOMAIN images) = 1

(***************************************************************************)
(* Properties of the ranking engine.                                       *)
(***************************************************************************)
\* C12: rank(0, 0) is (sorting 0.5, confidence 0), and every vote that leaves
\* a row at (0, d), d > 0, stores sorting -d and confidence
\* |0.5 - sorting| * (d / 10) = (0.5 + d) * d / 10.
C12_DegenerateRank ==
  [][/\ Rank(0, 0) = [sorting |-> Half, confidence |-> 0]
     /\ \A r \in Voters :
          (VoteUpdateStep(r) /\ images'[vreq[r].id].upvotes = 0) =>
            LET d == images'[vreq[r].id].downvotes
            IN /\ d > 0
               /\ images'[vreq[r].id].sorting = 0 - d * Scale
               /\ images'[vreq[r].id].confidence * 10 = (Half + d * Scale) * d]_vars

\* A downvote has left a row without upvotes at (0, d), d >= 2, scored -d.
C12_Witness ==
  \E r \in Voters :
    /\ vpc[r] = "done"
    /\ vres[r] = "Ok"
    /\ vreq[r].value = 0 - 1
    /\ images[vreq[r].id].upvotes = 0
    /\ images[vreq[r].id].downvotes >= 2
    /\ images[vreq[r].id].sorting = 0 - images[vreq[r].id].downvotes * Scale

\* C13: an upvote never lowers a row's sorting and a downvote never raises
\* it, from every (u, d), the rows at (0, 0) and (0, d) included.
C13_Monotone ==
  [][\A r \in Voters :
       (VoteUpdateStep(r) /\ RowAsFetched(r)) =>
         IF vreq[r].value = 1
         THEN images'[vreq[r].id].sorting >= images[vreq[r].id].sorting
         ELSE images'[vreq[r].id].sorting <= images[vreq[r].id].sorting]_vars
====
